---- MODULE Spec2Model ----
(***************************************************************************)
(* llmRouter.js: callLLM dispatches one request to one of three provider   *)
(* adapters (callOpenAI, callGemini, callOpenRouter).  Each adapter builds *)
(* one HTTP request, awaits fetch, checks response.ok, awaits              *)
(* response.json() and extracts the result.                                *)
(*                                                                         *)
(* JavaScript values are tagged records.  A string whose characters matter *)
(* (message roles and contents, the user value) is a sequence of           *)
(* characters or of UTF-16 code units; every other string is a TLA+ string.*)
(* A template literal is the tuple of its parts.                           *)
(***************************************************************************)
EXTENDS Integers, Sequences, FiniteSets, TLC

(***************************************************************************)
(* Bounds of the model.                                                    *)
(***************************************************************************)
NumCalls == 2
MaxMsgs == 2
MaxUserLen == 2

Calls == 1..NumCalls

(***************************************************************************)
(* JavaScript values.                                                      *)
(***************************************************************************)
Undefined == [t |-> "undefined"]
Null == [t |-> "null"]
JStr(s) == [t |-> "string", s |-> s]
JBool(b) == [t |-> "boolean", b |-> b]
JNum(n) == [t |-> "number", n |-> n]
Obj(f) == [t |-> "object", f |-> f]
Arr(e) == [t |-> "array", e |-> e]
Throw(name, message) == [t |-> "throw", name |-> name, message |-> message]

IsThrow(v) == v.t = "throw"
IsNullish(v) == v.t \in {"undefined", "null"}

\* x.key: a property read; reading a property of undefined or null throws a
\* TypeError, reading an absent property yields undefined.  A thrown error
\* aborts the rest of the expression.
Prop(x, key) ==
    IF IsThrow(x) THEN x
    ELSE IF IsNullish(x)
         THEN Throw("TypeError", <<"Cannot read properties of ", x.t, key>>)
    ELSE IF x.t = "object" /\ key \in DOMAIN x.f THEN x.f[key]
    ELSE Undefined

\* x[0]: the first element of an array, undefined when it has none.
Index0(x) ==
    IF IsThrow(x) THEN x
    ELSE IF IsNullish(x)
         THEN Throw("TypeError", <<"Cannot read properties of ", x.t, "0">>)
    ELSE IF x.t = "array" /\ Len(x.e) >= 1 THEN x.e[1]
    ELSE Undefined

\* `${v}` inside a template literal, for the values a provider tag, a model
\* name or a key takes.
TemplateStr(v) ==
    IF v.t = "string" THEN v.s
    ELSE IF v.t = "undefined" THEN "undefined"
    ELSE "null"

\* JSON.stringify of an object literal: a member whose value is undefined is
\* left out, every other member is written with its value.
JSONStringify(obj) ==
    [k \in {key \in DOMAIN obj : obj[key] # Undefined} |-> obj[k]]

(***************************************************************************)
(* Buffer.from(string).toString("base64"): the string's UTF-16 code units  *)
(* are written as UTF-8 bytes and the bytes as base64 text with padding.   *)
(***************************************************************************)
IsHighSurrogate(u) == u >= 55296 /\ u <= 56319
IsLowSurrogate(u) == u >= 56320 /\ u <= 57343

\* The UTF-8 bytes of one code point.
UTF8Bytes(cp) ==
    IF cp < 128 THEN <<cp>>
    ELSE IF cp < 2048 THEN <<192 + (cp \div 64), 128 + (cp % 64)>>
    ELSE IF cp < 65536
         THEN <<224 + (cp \div 4096), 128 + ((cp \div 64) % 64), 128 + (cp % 64)>>
    ELSE <<240 + (cp \div 262144), 128 + ((cp \div 4096) % 64),
           128 + ((cp \div 64) % 64), 128 + (cp % 64)>>

\* Buffer.from(string) under the default "utf8" encoding: a surrogate pair
\* is one code point, an unpaired surrogate is written as U+FFFD.
RECURSIVE UTF8Encode(_)
UTF8Encode(units) ==
    IF units = <<>> THEN <<>>
    ELSE LET u == Head(units) IN
         IF IsHighSurrogate(u) /\ Len(units) >= 2 /\ IsLowSurrogate(units[2])
         THEN UTF8Bytes(65536 + (u - 55296) * 1024 + (units[2] - 56320))
                  \o UTF8Encode(Tail(Tail(units)))
         ELSE IF IsHighSurrogate(u) \/ IsLowSurrogate(u)
         THEN UTF8Bytes(65533) \o UTF8Encode(Tail(units))
         ELSE UTF8Bytes(u) \o UTF8Encode(Tail(units))

B64Alphabet ==
    <<"A", "B", "C", "D", "E", "F", "G", "H", "I", "J", "K", "L", "M",
      "N", "O", "P", "Q", "R", "S", "T", "U", "V", "W", "X", "Y", "Z",
      "a", "b", "c", "d", "e", "f", "g", "h", "i", "j", "k", "l", "m",
      "n", "o", "p", "q", "r", "s", "t", "u", "v", "w", "x", "y", "z",
      "0", "1", "2", "3", "4", "5", "6", "7", "8", "9", "+", "/">>

B64Char(n) == B64Alphabet[n + 1]

\* buffer.toString("base64"): three bytes give four characters, a last
\* group of one or two bytes is padded with "=".
RECURSIVE Base64Encode(_)
Base64Encode(bytes) ==
    IF bytes = <<>> THEN <<>>
    ELSE IF Len(bytes) = 1
    THEN <<B64Char(bytes[1] \div 4), B64Char((bytes[1] % 4) * 16), "=", "=">>
    ELSE IF Len(bytes) = 2
    THEN <<B64Char(bytes[1] \div 4),
           B64Char((bytes[1] % 4) * 16 + (bytes[2] \div 16)),
           B64Char((bytes[2] % 16) * 4), "=">>
    ELSE <<B64Char(bytes[1] \div 4),
           B64Char((bytes[1] % 4) * 16 + (bytes[2] \div 16)),
           B64Char((bytes[2] % 16) * 4 + (bytes[3] \div 64)),
           B64Char(bytes[3] % 64)>>
             \o Base64Encode(SubSeq(bytes, 4, Len(bytes)))

\* a ?? b
NullishCoalesce(a, b) == IF IsNullish(a) THEN b ELSE a

\* One byte per code unit, its low eight bits.
UserFieldLatin1(p) ==
    JStr(Base64Encode(
        [i \in 1..Len(NullishCoalesce(p.user, JStr(<<>>)).s) |->
            NullishCoalesce(p.user, JStr(<<>>)).s[i] % 256]))

\* Buffer.from(params.user ?? "").toString("base64")
UserField(p) ==
    JStr(Base64Encode(UTF8Encode(NullishCoalesce(p.user, JStr(<<>>)).s)))

(***************************************************************************)
(* The request each adapter hands to fetch.                                *)
(***************************************************************************)
OpenAIUrl == <<"https://api.openai.com/v1/chat/completions">>
OpenRouterUrl == <<"https://openrouter.ai/api/v1/chat/completions">>
GeminiUrl(p) ==
    <<"https://generativelanguage.googleapis.com/v1beta/models/",
      TemplateStr(p.modelName), ":generateContent?key=", TemplateStr(p.apiKey)>>

\* The object literal callOpenAI and callOpenRouter pass to JSON.stringify.
ChatBody(p) ==
    JSONStringify([model |-> p.modelName,
                   messages |-> p.messages,
                   tools |-> p.tools,
                   response_format |-> p.response_format,
                   temperature |-> p.temperature,
                   user |-> UserField(p)])

OpenAIRequest(p) ==
    [method |-> "POST",
     url |-> OpenAIUrl,
     headers |-> ("Content-Type" :> <<"application/json">>)
                     @@ ("Authorization" :> <<TemplateStr(p.apiKey)>>),
     body |-> ChatBody(p)]

OpenRouterRequest(p) ==
    [method |-> "POST",
     url |-> OpenRouterUrl,
     headers |-> ("Content-Type" :> <<"application/json">>)
                     @@ ("Authorization" :> <<"Bearer ", TemplateStr(p.apiKey)>>),
     body |-> ChatBody(p)]

\* `[${m.role}] ${m.content}`
RenderMessage(m) == <<"[">> \o m.f.role.s \o <<"]", " ">> \o m.f.content.s

\* Array.prototype.join: the elements in order with the separator between
\* consecutive elements, the empty string for an empty array.
RECURSIVE Join(_, _)
Join(parts, sep) ==
    IF Len(parts) = 0 THEN <<>>
    ELSE IF Len(parts) = 1 THEN parts[1]
    ELSE parts[1] \o sep \o Join(Tail(parts), sep)

\* Every rendering followed by a newline.
GeminiTextTerminated(messages) ==
    Join([i \in 1..Len(messages.e) |-> RenderMessage(messages.e[i]) \o <<"\n">>],
         <<>>)

\* params.messages.map((m) => `[${m.role}] ${m.content}`).join("\n")
GeminiText(messages) ==
    Join([i \in 1..Len(messages.e) |-> RenderMessage(messages.e[i])], <<"\n">>)

GeminiBodyWithTemperature(p) ==
    JSONStringify(
        [contents |->
            Arr(<<Obj([parts |->
                Arr(<<Obj([text |-> JStr(GeminiText(p.messages))])>>)])>>),
         generationConfig |->
            IF p.temperature = Undefined THEN Undefined
            ELSE Obj([temperature |-> p.temperature])])

GeminiBody(p) ==
    JSONStringify(
        [contents |->
            Arr(<<Obj([parts |->
                Arr(<<Obj([text |-> JStr(GeminiText(p.messages))])>>)])>>)])

GeminiRequest(p) ==
    [method |-> "POST",
     url |-> GeminiUrl(p),
     headers |-> ("Content-Type" :> <<"application/json">>),
     body |-> GeminiBody(p)]

(***************************************************************************)
(* callLLM's switch on params.provider.                                    *)
(***************************************************************************)
DispatchDefaultOpenAI(p) ==
    IF p.provider = JStr("gemini") THEN "callGemini"
    ELSE IF p.provider = JStr("openrouter") THEN "callOpenRouter"
    ELSE "callOpenAI"

Dispatch(p) ==
    IF p.provider = JStr("openai") THEN "callOpenAI"
    ELSE IF p.provider = JStr("gemini") THEN "callGemini"
    ELSE IF p.provider = JStr("openrouter") THEN "callOpenRouter"
    ELSE "unsupported"

\* new Error(`Unsupported provider: ${params.provider}`)
UnsupportedError(p) ==
    Throw("Error", <<"Unsupported provider: ", TemplateStr(p.provider)>>)

RequestOfCopied(a, p) ==
    IF a = "callGemini" THEN GeminiRequest(p) ELSE OpenAIRequest(p)

\* The request the selected adapter passes to fetch.
RequestOf(a, p) ==
    IF a = "callOpenAI" THEN OpenAIRequest(p)
    ELSE IF a = "callGemini" THEN GeminiRequest(p)
    ELSE OpenRouterRequest(p)

(***************************************************************************)
(* After fetch resolves: the response.ok test and the error it throws.     *)
(***************************************************************************)
\* response.ok: the status is in the range 200-299.
ResponseOk(r) == r.status >= 200 /\ r.status <= 299

ErrorPrefix(a) ==
    IF a = "callOpenAI" THEN "OpenAI API error: "
    ELSE IF a = "callGemini" THEN "Gemini API error: "
    ELSE "OpenRouter API error: "

HttpErrorStatusOnly(a, r) ==
    Throw("Error", <<ErrorPrefix(a), ToString(r.status)>>)

\* new Error(`<Provider> API error: ${response.status} ${response.statusText}`)
HttpError(a, r) ==
    Throw("Error", <<ErrorPrefix(a), ToString(r.status), " ", r.statusText>>)

(***************************************************************************)
(* After response.json() resolves: result extraction.                      *)
(***************************************************************************)
\* JSON.parse on the argument strings the model draws; anything that is not
\* JSON text (undefined included) is a SyntaxError.
JSONParse(v) ==
    IF v.t # "string" THEN Throw("SyntaxError", <<"not valid JSON">>)
    ELSE IF v.s = "{\"response\": true}" THEN Obj([response |-> JBool(TRUE)])
    ELSE IF v.s = "{\"response\": \"Paris\"}" THEN Obj([response |-> JStr("Paris")])
    ELSE IF v.s = "{\"answer\": 1}" THEN Obj([answer |-> JNum(1)])
    ELSE IF v.s = "null" THEN Null
    ELSE Throw("SyntaxError", <<"not valid JSON">>)

OpenAIResultWholeArguments(data) ==
    LET message == Prop(Index0(Prop(data, "choices")), "message")
        content == Prop(message, "content")
        arguments ==
            Prop(Prop(Index0(Prop(message, "tool_calls")), "function"), "arguments")
    IN  IF IsThrow(content) THEN content
        ELSE IF content # Null THEN content
        ELSE IF IsThrow(arguments) THEN arguments
        ELSE IF arguments # Null THEN JSONParse(arguments)
        ELSE Null

OpenAIResult(data) ==
    LET message == Prop(Index0(Prop(data, "choices")), "message")
        content == Prop(message, "content")
        arguments ==
            Prop(Prop(Index0(Prop(message, "tool_calls")), "function"), "arguments")
    IN  IF IsThrow(content) THEN content
        ELSE IF content # Null THEN content
        ELSE IF IsThrow(arguments) THEN arguments
        ELSE IF arguments # Null THEN Prop(JSONParse(arguments), "response")
        ELSE Null

GeminiResult(data) ==
    Prop(Index0(Prop(Prop(Index0(Prop(data, "candidates")), "content"), "parts")),
         "text")

\* data.choices?.[0]?.message?.content
OpenRouterResultOptional(data) ==
    IF IsThrow(Prop(Prop(Index0(Prop(data, "choices")), "message"), "content"))
    THEN Undefined
    ELSE Prop(Prop(Index0(Prop(data, "choices")), "message"), "content")

OpenRouterResult(data) ==
    Prop(Prop(Index0(Prop(data, "choices")), "message"), "content")

ResultOf(a, data) ==
    IF a = "callOpenAI" THEN OpenAIResult(data)
    ELSE IF a = "callGemini" THEN GeminiResult(data)
    ELSE OpenRouterResult(data)

(***************************************************************************)
(* State: one record of progress per callLLM call, and the requests handed *)
(* to fetch, in the order they were issued.                                *)
(***************************************************************************)
VARIABLES
    pc,        \* pc[c]: "idle", "awaitFetch", "awaitJson" or "done"
    adapter,   \* adapter[c]: the adapter function callLLM entered, or "none"
    params,    \* params[c]: the object the caller passed
    requests,  \* the fetch calls made so far: [call, request]
    response,  \* response[c]: what fetch resolved with
    bodyRead,  \* bodyRead[c]: response.json() was called
    outcome    \* outcome[c]: the value callLLM returned or the error it threw

vars == <<pc, adapter, params, requests, response, bodyRead, outcome>>

None == [t |-> "none"]
NotJson == [t |-> "notjson"]

Init ==
    /\ pc = [c \in Calls |-> "idle"]
    /\ adapter = [c \in Calls |-> "none"]
    /\ params = [c \in Calls |-> None]
    /\ requests = <<>>
    /\ response = [c \in Calls |-> None]
    /\ bodyRead = [c \in Calls |-> FALSE]
    /\ outcome = [c \in Calls |-> None]

\* The adapter kept in one place for all calls: the one entered last.
ResumedLastEntered(c) == adapter[requests[Len(requests)].call]

\* The adapter frame that resumes when call c's await settles: the frame of
\* call c itself, with its own locals.
Resumed(c) == adapter[c]

\* callLLM(p) up to its first await: the switch, then the adapter builds the
\* request and calls fetch; an unknown tag throws before any of that.
StartCall(c, p) ==
    /\ pc[c] = "idle"
    /\ params' = [params EXCEPT ![c] = p]
    /\ IF Dispatch(p) = "unsupported"
       THEN /\ outcome' = [outcome EXCEPT ![c] = UnsupportedError(p)]
            /\ pc' = [pc EXCEPT ![c] = "done"]
            /\ UNCHANGED <<adapter, requests>>
       ELSE /\ adapter' = [adapter EXCEPT ![c] = Dispatch(p)]
            /\ requests' = Append(requests,
                                  [call |-> c, request |-> RequestOf(Dispatch(p), p)])
            /\ pc' = [pc EXCEPT ![c] = "awaitFetch"]
            /\ UNCHANGED outcome
    /\ UNCHANGED <<response, bodyRead>>

\* fetch resolves with response r: a status outside 200-299 throws, otherwise
\* response.json() is called and awaited.
FetchResolve(c, r) ==
    /\ pc[c] = "awaitFetch"
    /\ response' = [response EXCEPT ![c] = r]
    /\ IF ~ResponseOk(r)
       THEN /\ outcome' = [outcome EXCEPT ![c] = HttpError(Resumed(c), r)]
            /\ pc' = [pc EXCEPT ![c] = "done"]
            /\ UNCHANGED bodyRead
       ELSE /\ bodyRead' = [bodyRead EXCEPT ![c] = TRUE]
            /\ pc' = [pc EXCEPT ![c] = "awaitJson"]
            /\ UNCHANGED outcome
    /\ UNCHANGED <<adapter, params, requests>>

\* fetch rejects (the transport failed): the rejection is not caught.
FetchReject(c) ==
    /\ pc[c] = "awaitFetch"
    /\ outcome' = [outcome EXCEPT ![c] = Throw("TypeError", <<"fetch failed">>)]
    /\ pc' = [pc EXCEPT ![c] = "done"]
    /\ UNCHANGED <<adapter, params, requests, response, bodyRead>>

\* response.json() resolves with the parsed body: the adapter extracts the
\* result, returning it or throwing on the way.
JsonResolve(c) ==
    /\ pc[c] = "awaitJson"
    /\ response[c].body # NotJson
    /\ outcome' = [outcome EXCEPT ![c] = ResultOf(Resumed(c), response[c].body)]
    /\ pc' = [pc EXCEPT ![c] = "done"]
    /\ UNCHANGED <<adapter, params, requests, response, bodyRead>>

\* response.json() rejects (the body is not JSON text): not caught either.
JsonReject(c) ==
    /\ pc[c] = "awaitJson"
    /\ response[c].body = NotJson
    /\ outcome' = [outcome EXCEPT ![c] = Throw("SyntaxError", <<"not valid JSON">>)]
    /\ pc' = [pc EXCEPT ![c] = "done"]
    /\ UNCHANGED <<adapter, params, requests, response, bodyRead>>

(***************************************************************************)
(* Inputs: the params objects callers pass and the responses the network   *)
(* gives.                                                                  *)
(***************************************************************************)
SeqsUpTo(S, n) == UNION {[1..k -> S] : k \in 0..n}

Msg(role, content) == Obj([role |-> JStr(role), content |-> JStr(content)])

Roles == {<<"u", "s", "e", "r">>, <<"s", "y", "s">>}
Contents == {<<"h", "i">>, <<"a", "\n", "b">>, <<>>}
Messages == {Msg(r, k) : r \in Roles, k \in Contents}

\* UTF-16 code units: "A", e-acute, the euro sign, and the high and the low
\* surrogate of U+1F600.
CodeUnits == {65, 233, 8364, 55357, 56832}
UserValues ==
    {Undefined, Null} \cup {JStr(u) : u \in SeqsUpTo(CodeUnits, MaxUserLen)}

OpenAI == JStr("openai")
Gemini == JStr("gemini")
OpenRouter == JStr("openrouter")
Providers == {OpenAI, Gemini, OpenRouter, JStr("anthropic"), JStr("OpenAI"),
              JStr(""), Undefined, Null}

Temperatures == {Undefined, JNum(0)}
ToolLists == {Undefined, Arr(<<Obj([type |-> JStr("function")])>>)}
Formats == {Undefined, Obj([type |-> JStr("json_object")])}

BaseParams(provider) ==
    [provider |-> provider,
     modelName |-> JStr("m1"),
     apiKey |-> JStr("k1"),
     messages |-> Arr(<<Msg(<<"u", "s", "e", "r">>, <<"h", "i">>)>>),
     temperature |-> Undefined,
     user |-> Undefined,
     tools |-> Undefined,
     response_format |-> Undefined]

\* Every provider tag, known or not.
RoutingParams == {BaseParams(pr) : pr \in Providers}

\* Every message sequence up to the bound.
MessageParams ==
    {[BaseParams(pr) EXCEPT !.messages = Arr(ms)] :
        pr \in {Gemini, OpenRouter}, ms \in SeqsUpTo(Messages, MaxMsgs)}

\* Every combination of the optional fields, with two model names and keys.
OptionParams ==
    {[BaseParams(pr) EXCEPT !.modelName = JStr(mn), !.apiKey = JStr(k),
                            !.temperature = te, !.tools = tl,
                            !.response_format = rf, !.user = u] :
        pr \in {OpenAI, Gemini, OpenRouter},
        mn \in {"m1", "m2"}, k \in {"k1", "k2"},
        te \in Temperatures, tl \in ToolLists, rf \in Formats,
        u \in {Undefined, JStr(<<65>>)}}

\* Every user value up to the bound.
UserParams ==
    {[BaseParams(pr) EXCEPT !.user = u] :
        pr \in {OpenAI, OpenRouter}, u \in UserValues}

AllParams == RoutingParams \cup MessageParams \cup OptionParams \cup UserParams

ToolCall(args) == Obj([function |-> Obj([arguments |-> args])])
ChatData(message) == Obj([choices |-> Arr(<<Obj([message |-> message])>>)])
GeminiData(parts) ==
    Obj([candidates |-> Arr(<<Obj([content |-> Obj([parts |-> parts])])>>)])

ArgStrings == {JStr("{\"response\": true}"), JStr("{\"response\": \"Paris\"}"),
               JStr("{\"answer\": 1}"), JStr("null"), JStr("{response: tr")}

ChatBodies ==
    {ChatData(Obj([content |-> JStr("Paris")])),
     ChatData(Obj([content |-> JStr("")])),
     ChatData(Obj([content |-> JStr("Paris"),
                   tool_calls |-> Arr(<<ToolCall(JStr("{\"response\": true}"))>>)])),
     ChatData(Obj([content |-> Null])),
     ChatData(Obj([content |-> Null, tool_calls |-> Arr(<<>>)])),
     ChatData(Obj([content |-> Null, tool_calls |-> Arr(<<Obj(<<>>)>>)])),
     ChatData(Obj([content |-> Null,
                   tool_calls |-> Arr(<<Obj([function |-> Obj(<<>>)])>>)])),
     ChatData(Obj([content |-> Null, tool_calls |-> Arr(<<ToolCall(Null)>>)])),
     ChatData(Obj(<<>>)),
     Obj([choices |-> Arr(<<Obj(<<>>)>>)]),
     Obj([choices |-> Arr(<<>>)]),
     Obj(<<>>),
     Null}
    \cup {ChatData(Obj([content |-> Null, tool_calls |-> Arr(<<ToolCall(a)>>)])) :
            a \in ArgStrings}

GeminiBodies ==
    {GeminiData(Arr(<<Obj([text |-> JStr("Paris")])>>)),
     GeminiData(Arr(<<Obj(<<>>)>>)),
     GeminiData(Arr(<<>>)),
     Obj([candidates |-> Arr(<<Obj([content |-> Obj(<<>>)])>>)]),
     Obj([candidates |-> Arr(<<Obj(<<>>)>>)]),
     Obj([candidates |-> Arr(<<>>)])}

ErrorBody == Obj([error |-> Obj([message |-> JStr("denied")])])

Response(status, text, body) ==
    [status |-> status, statusText |-> text, body |-> body]

AllResponses ==
    {Response(200, "OK", b) : b \in ChatBodies \cup GeminiBodies \cup {NotJson}}
    \cup {Response(201, "Created", ChatData(Obj([content |-> JStr("Paris")])))}
    \cup {Response(st[1], st[2], b) :
            st \in {<<401, "Unauthorized">>, <<500, "Internal Server Error">>,
                    <<199, "">>, <<300, "Multiple Choices">>},
            b \in {ErrorBody, NotJson, ChatData(Obj([content |-> JStr("Paris")]))}}

\* The few inputs the concurrent calls draw from.
FewParams ==
    {[BaseParams(OpenAI) EXCEPT !.user = JStr(<<65>>)], BaseParams(Gemini),
     BaseParams(OpenRouter), BaseParams(JStr("anthropic"))}

FewResponses ==
    {Response(200, "OK", ChatData(Obj([content |-> JStr("Paris")]))),
     Response(200, "OK", GeminiData(Arr(<<Obj([text |-> JStr("Rome")])>>))),
     Response(200, "OK", NotJson),
     Response(401, "Unauthorized", ErrorBody)}

(***************************************************************************)
(* Spec: NumCalls callLLM calls in flight at once, interleaved at their    *)
(* awaits.  SpecInputs: one call over the whole range of inputs.           *)
(***************************************************************************)
Next ==
    \E c \in Calls :
        \/ \E p \in FewParams : StartCall(c, p)
        \/ \E r \in FewResponses : FetchResolve(c, r)
        \/ FetchReject(c)
        \/ JsonResolve(c)
        \/ JsonReject(c)

Spec == Init /\ [][Next]_vars

NextInputs ==
    \/ \E p \in AllParams : StartCall(1, p)
    \/ \E r \in AllResponses : FetchResolve(1, r)
    \/ FetchReject(1)
    \/ JsonResolve(1)
    \/ JsonReject(1)

SpecInputs == Init /\ [][NextInputs]_vars

(***************************************************************************)
(* Properties.                                                             *)
(***************************************************************************)
\* The requests call c has handed to fetch, in order.
RequestsOf(c) == SelectSeq(requests, LAMBDA e : e.call = c)

Started(c) == pc[c] # "idle"
Done(c) == pc[c] = "done"
Returned(c) == Done(c) /\ ~IsThrow(outcome[c])
Threw(c) == Done(c) /\ IsThrow(outcome[c])

KnownTag(p) == p.provider \in {JStr("openai"), JStr("gemini"), JStr("openrouter")}

\* The text a tag takes inside an error message.
TagText(tag) == IF tag.t = "string" THEN tag.s ELSE tag.t

\* C1: a call whose provider tag is none of "openai", "gemini",
\* "openrouter" (a missing tag included) has failed with the error
\* "Unsupported provider: <tag>", and at no point has it entered an adapter,
\* issued a request or received a response.
C1_UnsupportedProvider ==
    \A c \in Calls :
        (Started(c) /\ ~KnownTag(params[c])) =>
            /\ Threw(c)
            /\ outcome[c].name = "Error"
            /\ outcome[c].message
                 = <<"Unsupported provider: ", TagText(params[c].provider)>>
            /\ RequestsOf(c) = <<>>
            /\ adapter[c] = "none"
            /\ response[c] = None
            /\ ~bodyRead[c]

C1_Witness ==
    /\ Threw(1)
    /\ params[1].provider = Undefined
    /\ outcome[1].message = <<"Unsupported provider: ", "undefined">>
    /\ requests = <<>>

\* The endpoint of a provider: where its URL starts.
EndpointOf(tag) ==
    IF tag = JStr("openai") THEN "https://api.openai.com/v1/chat/completions"
    ELSE IF tag = JStr("gemini")
         THEN "https://generativelanguage.googleapis.com/v1beta/models/"
    ELSE "https://openrouter.ai/api/v1/chat/completions"

\* C2: a call with one of the three supported tags has issued exactly one
\* request from its start to its end, however it ends, and that request is a
\* POST to the endpoint of its own provider.
C2_OneRequestToOwnEndpoint ==
    \A c \in Calls :
        (Started(c) /\ KnownTag(params[c])) =>
            /\ Len(RequestsOf(c)) = 1
            /\ RequestsOf(c)[1].request.method = "POST"
            /\ RequestsOf(c)[1].request.url[1] = EndpointOf(params[c].provider)

\* All calls are over: one returned a value, one failed on the HTTP status or
\* during extraction, and each supported call issued one request.
C2_Witness ==
    /\ \A c \in Calls : Done(c)
    /\ \E c \in Calls : Returned(c) /\ params[c].provider = JStr("openrouter")
    /\ \E c \in Calls :
          /\ Threw(c) /\ outcome[c].name = "TypeError" /\ bodyRead[c]
          /\ params[c].provider = JStr("gemini")
    /\ Len(requests) = 2

StatusFails(r) == r.status < 200 \/ r.status > 299

\* C3: once a call has received a response whose status is outside 200-299,
\* the call is over with an Error whose message holds the status and the status
\* text; its body was not read, and it issued no request beyond its first.
C3_HttpErrorFails ==
    \A c \in Calls :
        (response[c] # None /\ StatusFails(response[c])) =>
            /\ Threw(c)
            /\ outcome[c].name = "Error"
            /\ Len(outcome[c].message) = 4
            /\ outcome[c].message[2] = ToString(response[c].status)
            /\ outcome[c].message[4] = response[c].statusText
            /\ ~bodyRead[c]
            /\ Len(RequestsOf(c)) = 1

C3_Witness ==
    /\ Threw(1)
    /\ response[1] # None
    /\ response[1].status = 401
    /\ adapter[1] = "callGemini"
    /\ outcome[1].message = <<"Gemini API error: ", "401", " ", "Unauthorized">>

\* The parts of a chat-completion body the extraction walks through.
FirstChoice(data) == Index0(Prop(data, "choices"))
FirstMessage(data) == Prop(FirstChoice(data), "message")
FirstToolCall(data) == Index0(Prop(FirstMessage(data), "tool_calls"))
FirstArguments(data) == Prop(Prop(FirstToolCall(data), "function"), "arguments")

HasField(x, key) == x.t = "object" /\ key \in DOMAIN x.f

\* Call c ran callOpenAI to its end on a successful response with JSON body.
OpenAIExtracted(c) ==
    /\ Done(c)
    /\ adapter[c] = "callOpenAI"
    /\ response[c] # None
    /\ ~StatusFails(response[c])
    /\ response[c].body # NotJson

C5_NeitherReturnsEmpty ==
    \A c \in Calls :
        (/\ OpenAIExtracted(c)
         /\ HasField(FirstMessage(response[c].body), "content")
         /\ FirstMessage(response[c].body).f.content = Null
         /\ \/ ~HasField(FirstMessage(response[c].body), "tool_calls")
            \/ FirstMessage(response[c].body).f.tool_calls = Arr(<<>>)) =>
            /\ ~IsThrow(outcome[c])
            /\ outcome[c] \in {Null, Undefined, JStr("")}

\* What the extraction expects and a body may lack.
NoChoice(data) == IsThrow(FirstChoice(data)) \/ IsNullish(FirstChoice(data))
NoMessage(data) == ~NoChoice(data) /\ IsNullish(FirstMessage(data))
NoContent(data) ==
    FirstMessage(data).t = "object" /\ ~HasField(FirstMessage(data), "content")
BadArguments(data) ==
    /\ HasField(FirstMessage(data), "content")
    /\ FirstMessage(data).f.content = Null
    /\ FirstArguments(data).t = "string"
    /\ IsThrow(JSONParse(FirstArguments(data)))

FirstCandidate(data) == Index0(Prop(data, "candidates"))
FirstPart(data) == Index0(Prop(Prop(FirstCandidate(data), "content"), "parts"))
NoPart(data) == IsThrow(FirstPart(data)) \/ IsNullish(FirstPart(data))
NoText(data) == FirstPart(data).t = "object" /\ ~HasField(FirstPart(data), "text")

Extracted(c) ==
    /\ Done(c)
    /\ adapter[c] # "none"
    /\ response[c] # None
    /\ ~StatusFails(response[c])
    /\ response[c].body # NotJson

\* A body lacks a field the extraction of call c expects.
LacksContainer(c) ==
    IF adapter[c] = "callGemini" THEN NoPart(response[c].body)
    ELSE NoChoice(response[c].body) \/ NoMessage(response[c].body)

LacksLeaf(c) ==
    IF adapter[c] = "callGemini" THEN NoText(response[c].body)
    ELSE NoContent(response[c].body)

\* C10 (as claimed): a successful response whose body lacks a field the
\* extraction expects (no choices or candidates entry, no message, no content
\* or text field, or for openai an argument string that is not JSON) makes
\* the call fail with an error; it never returns a value for such a body.
C10_MissingFieldThrows ==
    \A c \in Calls :
        (/\ Extracted(c)
         /\ \/ LacksContainer(c)
            \/ LacksLeaf(c)
            \/ adapter[c] = "callOpenAI" /\ BadArguments(response[c].body)) =>
            Threw(c)

\* C10 (amended): a body with no choices or candidates entry, no message, no
\* content object or no parts entry makes the call fail with a TypeError, and
\* for openai an argument string that is not JSON with a SyntaxError; a body
\* that lacks only the last field read (content, text) makes the call return
\* undefined.
C10_MissingContainerThrows ==
    \A c \in Calls :
        Extracted(c) =>
            /\ LacksContainer(c) => (Threw(c) /\ outcome[c].name = "TypeError")
            /\ (adapter[c] = "callOpenAI" /\ BadArguments(response[c].body)) =>
                  (Threw(c) /\ outcome[c].name = "SyntaxError")
            /\ LacksLeaf(c) => (Returned(c) /\ outcome[c] = Undefined)

C10_Witness ==
    /\ Extracted(1)
    /\ adapter[1] = "callOpenRouter"
    /\ response[1].body = Obj([choices |-> Arr(<<>>)])
    /\ Threw(1)
    /\ outcome[1].name = "TypeError"

\* Call c entered callGemini, and the request it handed to fetch.
GeminiIssued(c) == Started(c) /\ adapter[c] = "callGemini"
RequestSent(c) == RequestsOf(c)[1].request

\* contents[0].parts[0].text of a body sent to gemini.
SentText(c) == RequestSent(c).body.contents.e[1].f.parts.e[1].f.text.s

\* `[role] content` for one message.
Line(m) == <<"[">> \o m.f.role.s \o <<"]", " ">> \o m.f.content.s

\* Where the rendering of message i starts in the text, counted from 0: after
\* the i-1 renderings before it and one separator for each.
RECURSIVE Offset(_, _)
Offset(ms, i) ==
    IF i = 1 THEN 0 ELSE Offset(ms, i - 1) + Len(Line(ms[i - 1])) + 1

\* The lines of a text as its reader sees them: the pieces between newlines,
\* none for the empty text.
RECURSIVE SplitLines(_)
SplitLines(text) ==
    IF \A i \in 1..Len(text) : text[i] # "\n" THEN <<text>>
    ELSE LET k == CHOOSE i \in 1..Len(text) :
                      text[i] = "\n" /\ \A j \in 1..(i - 1) : text[j] # "\n"
         IN  <<SubSeq(text, 1, k - 1)>> \o SplitLines(SubSeq(text, k + 1, Len(text)))

Segments(text) == IF text = <<>> THEN <<>> ELSE SplitLines(text)

HasNewline(chars) == \E i \in 1..Len(chars) : chars[i] = "\n"

\* C6 (as claimed): for every message sequence the text sent to gemini has
\* one line per message: its lines are the renderings `[role] content` of
\* the messages, in order, as many as there are messages.
C6_OneLinePerMessage ==
    \A c \in Calls :
        GeminiIssued(c) =>
            LET ms == params[c].messages.e IN
            /\ Len(Segments(SentText(c))) = Len(ms)
            /\ \A i \in 1..Len(ms) : Segments(SentText(c))[i] = Line(ms[i])

\* C6 (amended): the text is the renderings `[role] content` in input order,
\* each at the place the ones before it leave, with exactly one newline
\* between two consecutive renderings and nothing before the first or after
\* the last; one message gives exactly its rendering; and when no role or
\* content holds a newline, the lines of the text are these renderings, one
\* per message.
C6_JoinedInOrder ==
    \A c \in Calls :
        GeminiIssued(c) =>
            LET ms == params[c].messages.e
                n == Len(ms)
                text == SentText(c)
            IN  /\ DOMAIN RequestSent(c).body = {"contents"}
                /\ n = 0 => text = <<>>
                /\ n = 1 => text = Line(ms[1])
                /\ n >= 1 => Len(text) = Offset(ms, n) + Len(Line(ms[n]))
                /\ \A i \in 1..n :
                      /\ SubSeq(text, Offset(ms, i) + 1,
                                Offset(ms, i) + Len(Line(ms[i]))) = Line(ms[i])
                      /\ i < n => text[Offset(ms, i) + Len(Line(ms[i])) + 1] = "\n"
                /\ (\A i \in 1..n : ~HasNewline(Line(ms[i]))) =>
                      /\ Len(Segments(text)) = n
                      /\ \A i \in 1..n : Segments(text)[i] = Line(ms[i])

C6_Witness ==
    /\ GeminiIssued(1)
    /\ Len(params[1].messages.e) = 2
    /\ params[1].messages.e[1].f.role.s # params[1].messages.e[2].f.role.s
    /\ \A i \in 1..2 : ~HasNewline(Line(params[1].messages.e[i]))
    /\ Len(Segments(SentText(1))) = 2

\* Two params objects that agree on everything callGemini reads.
SameForGemini(p, q) ==
    /\ q.provider = p.provider
    /\ q.modelName = p.modelName
    /\ q.apiKey = p.apiKey
    /\ q.messages = p.messages

\* C7: the request a gemini call sent is the request of every other params
\* object with the same modelName, apiKey and messages, whatever its
\* temperature, tools, response_format and user; it holds a URL, a
\* Content-Type header and the contents member and nothing else, and the call
\* did not fail before sending it.
C7_GeminiDropsOptions ==
    \A c \in Calls :
        GeminiIssued(c) =>
            /\ Len(RequestsOf(c)) = 1
            /\ \A q \in AllParams :
                  SameForGemini(params[c], q) => GeminiRequest(q) = RequestSent(c)
            /\ DOMAIN RequestSent(c).body = {"contents"}
            /\ DOMAIN RequestSent(c).headers = {"Content-Type"}
            /\ Threw(c) => (response[c] # None \/ outcome[c].message = <<"fetch failed">>)

C7_Witness ==
    /\ GeminiIssued(1)
    /\ params[1].temperature # Undefined
    /\ params[1].tools # Undefined
    /\ params[1].response_format # Undefined
    /\ params[1].user # Undefined
    /\ Returned(1)
    /\ outcome[1] = JStr("Paris")

\* What a consumer of the user field does: base64 text back to bytes, and
\* UTF-8 bytes back to UTF-16 code units (a byte that starts no well-formed
\* sequence reads as U+FFFD).
B64Index(ch) == CHOOSE n \in 0..63 : B64Alphabet[n + 1] = ch

RECURSIVE Base64Decode(_)
Base64Decode(chars) ==
    IF Len(chars) < 4 THEN <<>>
    ELSE LET b1 == B64Index(chars[1]) * 4 + (B64Index(chars[2]) \div 16)
             rest == Base64Decode(SubSeq(chars, 5, Len(chars)))
         IN  IF chars[3] = "=" THEN <<b1>>
             ELSE LET b2 == (B64Index(chars[2]) % 16) * 16
                                + (B64Index(chars[3]) \div 4)
                  IN  IF chars[4] = "=" THEN <<b1, b2>>
                      ELSE <<b1, b2,
                             (B64Index(chars[3]) % 4) * 64 + B64Index(chars[4])>>
                               \o rest

IsContinuation(b) == b >= 128 /\ b <= 191

RECURSIVE UTF8Decode(_)
UTF8Decode(bytes) ==
    IF bytes = <<>> THEN <<>>
    ELSE LET b == bytes[1]
             n == Len(bytes)
         IN  IF b < 128 THEN <<b>> \o UTF8Decode(Tail(bytes))
             ELSE IF b >= 192 /\ b <= 223 /\ n >= 2 /\ IsContinuation(bytes[2])
             THEN <<(b - 192) * 64 + (bytes[2] - 128)>>
                      \o UTF8Decode(SubSeq(bytes, 3, n))
             ELSE IF /\ b >= 224 /\ b <= 239 /\ n >= 3
                     /\ IsContinuation(bytes[2]) /\ IsContinuation(bytes[3])
             THEN <<(b - 224) * 4096 + (bytes[2] - 128) * 64 + (bytes[3] - 128)>>
                      \o UTF8Decode(SubSeq(bytes, 4, n))
             ELSE IF /\ b >= 240 /\ b <= 247 /\ n >= 4
                     /\ IsContinuation(bytes[2]) /\ IsContinuation(bytes[3])
                     /\ IsContinuation(bytes[4])
             THEN LET cp == (b - 240) * 262144 + (bytes[2] - 128) * 4096
                              + (bytes[3] - 128) * 64 + (bytes[4] - 128)
                  IN  <<55296 + ((cp - 65536) \div 1024),
                        56320 + ((cp - 65536) % 1024)>>
                          \o UTF8Decode(SubSeq(bytes, 5, n))
             ELSE <<65533>> \o UTF8Decode(Tail(bytes))

DecodeUser(chars) == UTF8Decode(Base64Decode(chars))

\* Call c entered callOpenAI or callOpenRouter.
ChatIssued(c) == Started(c) /\ adapter[c] \in {"callOpenAI", "callOpenRouter"}

\* The user value as a string: empty when the caller gave none.
UserUnits(p) == IF IsNullish(p.user) THEN <<>> ELSE p.user.s

\* No surrogate stands without its partner.
WellFormed(units) ==
    \A i \in 1..Len(units) :
        /\ IsHighSurrogate(units[i]) =>
              (i < Len(units) /\ IsLowSurrogate(units[i + 1]))
        /\ IsLowSurrogate(units[i]) => (i > 1 /\ IsHighSurrogate(units[i - 1]))

\* C8 (as claimed): the user member of an openai or openrouter body is
\* always sent, and decoding it gives back exactly the caller's user value,
\* the empty string when there was none.
C8_UserRoundTrip ==
    \A c \in Calls :
        ChatIssued(c) =>
            /\ "user" \in DOMAIN RequestSent(c).body
            /\ RequestSent(c).body.user.t = "string"
            /\ DecodeUser(RequestSent(c).body.user.s) = UserUnits(params[c])

\* C8 (amended): the user member is always sent; for a user value with no
\* unpaired surrogate, decoding it gives back exactly that value, and no other
\* such value is sent as the same text; with no user value it decodes to the
\* empty string.
C8_WellFormedUserRoundTrip ==
    \A c \in Calls :
        ChatIssued(c) =>
            /\ "user" \in DOMAIN RequestSent(c).body
            /\ RequestSent(c).body.user.t = "string"
            /\ Len(RequestSent(c).body.user.s) % 4 = 0
            /\ WellFormed(UserUnits(params[c])) =>
                  /\ DecodeUser(RequestSent(c).body.user.s) = UserUnits(params[c])
                  /\ \A v \in UserValues :
                        (/\ WellFormed(UserUnits([user |-> v]))
                         /\ UserUnits([user |-> v]) # UserUnits(params[c])) =>
                            UserField([user |-> v]) # RequestSent(c).body.user
            /\ IsNullish(params[c].user) => RequestSent(c).body.user.s = <<>>

\* U+1F600, a surrogate pair, sent by callOpenRouter as "8J+YgA==".
C8_Witness ==
    /\ ChatIssued(1)
    /\ adapter[1] = "callOpenRouter"
    /\ params[1].user = JStr(<<55357, 56832>>)
    /\ RequestSent(1).body.user.s = <<"8", "J", "+", "Y", "g", "A", "=", "=">>

\* What a call's outcome is, given its params and its response alone.
OutcomeFor(p, r) ==
    IF ~KnownTag(p) THEN UnsupportedError(p)
    ELSE IF r = None THEN Throw("TypeError", <<"fetch failed">>)
    ELSE IF StatusFails(r) THEN HttpError(Dispatch(p), r)
    ELSE IF r.body = NotJson THEN Throw("SyntaxError", <<"not valid JSON">>)
    ELSE ResultOf(Dispatch(p), r.body)

\* C9: with several calls in flight, interleaved in every way, each call's
\* request is the request of its own params, each finished call's outcome is
\* the outcome of its own params and its own response, two calls with the
\* same params and the same response end the same way, and the params object
\* of a started call is never changed.
C9_CallsIndependentState ==
    /\ \A c \in Calls :
          /\ (Started(c) /\ KnownTag(params[c])) =>
                RequestsOf(c) = <<[call |-> c,
                                   request |-> RequestOf(Dispatch(params[c]),
                                                         params[c])]>>
          /\ Done(c) => outcome[c] = OutcomeFor(params[c], response[c])
          /\ ~Done(c) => outcome[c] = None
    /\ \A c, d \in Calls :
          (/\ Done(c) /\ Done(d)
           /\ params[c] = params[d]
           /\ response[c] = response[d]) => outcome[c] = outcome[d]

\* C9, the step part: a started call's params object stays as the caller
\* passed it, and a finished call's outcome is not touched by the others.
C9_ParamsKept ==
    \A c \in Calls :
        Started(c) =>
            /\ params'[c] = params[c]
            /\ Done(c) => (outcome'[c] = outcome[c] /\ pc'[c] = pc[c])

\* C9: in every state the calls depend on their own params and response
\* only, and no step changes a started call's params or a settled outcome.
C9_CallsIndependent == []C9_CallsIndependentState /\ [][C9_ParamsKept]_vars

\* Two calls were in flight together, the first entered callOpenAI and the
\* second callGemini, and each ended with the text of its own response.
C9_Witness ==
    /\ Len(requests) >= 2
    /\ requests[1].call = 1
    /\ requests[2].call = 2
    /\ adapter[1] = "callOpenAI"
    /\ adapter[2] = "callGemini"
    /\ outcome[1] = JStr("Paris")
    /\ outcome[2] = JStr("Rome")

====
